---- MODULE Spec2Model ----
(***************************************************************************)
(* Model of src/app.py: the size-budget search of create_searchable_pdf    *)
(* and the page loop of process_single_pdf that drives it.                 *)
(*                                                                         *)
(* Lengths are pixels, sizes are bytes.  Floating-point values of the code *)
(* are kept exact: a resize factor is held in tenths (0.9 is 9), a         *)
(* confidence in hundredths (0.5 is 50), and a coordinate, once scaled, is *)
(* a fraction <<numerator, denominator>> in lowest terms.                  *)
(***************************************************************************)
EXTENDS Integers, Sequences, FiniteSets, TLC

VARIABLES
    max_output_size,      \* main: the slider value handed to every call, MB
    lastSettings,         \* create_searchable_pdf._last_compression_settings
    cacheDoc,             \* history: the call of process_single_pdf in which
                          \*   lastSettings was last written (0: never)
    cacheWrites,          \* history: the pages whose handling wrote
                          \*   lastSettings, in this call of process_single_pdf
    firstPlan,            \* history: the plan the caller read after the
                          \*   first search of the program, if that search
                          \*   took the reference input
    docNo,                \* history: calls of process_single_pdf so far
    pdfPc,                \* process_single_pdf: control point
    temp_dir,             \* process_single_pdf: the directory of line 327:
                          \*   "None", "created", "removed", or "kept"
                          \*   when rmtree failed
    total_pages,          \* process_single_pdf: len(images) (line 383)
    page_image,           \* process_single_pdf: images[page_num - 1], the
                          \*   loop's image (line 393)
    page_num,             \* process_single_pdf: loop variable (line 393)
    compression_settings, \* process_single_pdf: local (lines 391, 417)
    processed_pdfs,       \* process_single_pdf: local list (line 315)
    pageLog,              \* history: how each page of the call ended
    result,               \* what process_single_pdf returned
    pc,                   \* create_searchable_pdf: control point
    argImage,             \* create_searchable_pdf: the image as passed
    detImage,             \* history: the image the regions were detected on
    image,                \* create_searchable_pdf: local, after the guard
    ocr_results,          \* the regions of the current page
    max_size_bytes,       \* create_searchable_pdf: local (line 140)
    file_size,            \* create_searchable_pdf: local (line 173)
    test_size,            \* create_searchable_pdf: local (lines 200, 257)
    qi,                   \* position in the quality loop (line 193)
    ri,                   \* position in the resize loop (line 220)
    resize_factor,        \* create_searchable_pdf: loop variable (line 220)
    temp_file,            \* the file at output_path + ".temp"
    output_file,          \* the file at output_path
    attempts,             \* history: the assemblies of this search, in order
    smallest,             \* history: the smallest assembly of this search
    raised,               \* the exception that ended the search, if any
    pdf_file,             \* validate_pdf_file: the uploaded stream
    vpc,                  \* validate_pdf_file: control point
    validation            \* what validate_pdf_file returned

docVars == <<docNo, pdfPc, temp_dir, total_pages, page_image, page_num,
             compression_settings, processed_pdfs, pageLog, result>>
searchVars == <<pc, argImage, detImage, image, ocr_results, max_size_bytes,
                file_size, test_size, qi, ri, resize_factor, temp_file,
                output_file, attempts, smallest, raised>>
validateVars == <<pdf_file, vpc, validation>>
programVars == <<max_output_size, lastSettings, cacheDoc, cacheWrites,
                 firstPlan, docVars, searchVars>>
vars == <<programVars, validateVars>>

----------------------------------------------------------------------------
(* Bounds of the model *)

MaxDocs == 3
MaxPages == 2

(* Constants of the program *)

max_pixels == 50000000
LegibilityFloor == 600
ResizeJpegQuality == 75
ConfidenceThreshold == 50
MinFontSize == 8
LastQualityTried == 60
BytesPerMB == 1024 * 1024
MAX_FILE_SIZE_MB == 50
MAX_FILE_SIZE_BYTES == MAX_FILE_SIZE_MB * 1024 * 1024

(* a slip: a quality tried a second time *)
qualities_repeated == <<90, 80, 80, 70, 60>>

(* line 193 *)
qualities == <<90, 80, 70, 60>>

(* a slip: two steps of the ladder exchanged *)
resize_factors_swapped == <<9, 7, 8, 6, 5>>

(* line 220, in tenths *)
resize_factors == <<9, 8, 7, 6, 5>>

----------------------------------------------------------------------------
(* Arithmetic *)

Max(a, b) == IF a >= b THEN a ELSE b
Abs(a) == IF a < 0 THEN 0 - a ELSE a

RECURSIVE GCD(_, _)
GCD(a, b) == IF b = 0 THEN a ELSE GCD(b, a % b)

(* the fraction n/d, d > 0, in lowest terms *)
Rat(n, d) == LET g == GCD(Abs(n), d) IN <<n \div g, d \div g>>
RatOfInt(n) == <<n, 1>>
(* a - b over the least common denominator *)
RatSub(a, b) ==
    LET l == (a[2] \div GCD(a[2], b[2])) * b[2]
    IN  Rat(a[1] * (l \div a[2]) - b[1] * (l \div b[2]), l)
RatScale(a, num, den) == Rat(a[1] * num, a[2] * den)
RatLess(a, b) == a[1] * b[2] < b[1] * a[2]
RatMax(a, b) == IF RatLess(a, b) THEN b ELSE a

RECURSIVE SqrtSearch(_, _, _)
SqrtSearch(x, lo, hi) ==
    IF lo >= hi THEN lo
    ELSE LET mid == (lo + hi + 1) \div 2
         IN  IF mid * mid <= x THEN SqrtSearch(x, mid, hi)
                               ELSE SqrtSearch(x, lo, mid - 1)
(* floor of the square root *)
ISqrt(x) == SqrtSearch(x, 0, 46340)

(* floor(a * m / b) without leaving 32 bits, for a * b < 2^31 *)
MulDiv(a, m, b) == a * (m \div b) + (a * (m % b)) \div b

----------------------------------------------------------------------------
(* Images, regions, settings, files *)

Img(w, h, mode) == [w |-> w, h |-> h, mode |-> mode]
NoImage == Img(0, 0, "none")
Pixels(img) == img.w * img.h
LongestDimension(img) == Max(img.w, img.h)

Pt(x, y) == <<RatOfInt(x), RatOfInt(y)>>
Region(x1, y1, x3, y3, text, confidence) ==
    [bbox |-> <<Pt(x1, y1), Pt(x3, y1), Pt(x3, y3), Pt(x1, y3)>>,
     text |-> text, confidence |-> confidence]

Settings(method, quality, factor) ==
    [method |-> method, jpeg_quality |-> quality, resize_factor |-> factor]
(* a key the dict does not hold is 0; the attribute not set is NoSettings *)
NoSettings == Settings("None", 0, 0)
NoCompression == Settings("no_compression", 0, 0)
JpegOnly(q) == Settings("jpeg_only", q, 0)
ResizeAndJpeg(f, q) == Settings("resize_and_jpeg", q, f)

NoFile == [w |-> 0, h |-> 0, mode |-> "none", regions |-> <<>>,
           drawn |-> <<>>, size |-> 0, tier |-> NoSettings]

----------------------------------------------------------------------------
(* The pure steps of create_searchable_pdf *)

(* a slip: the guard left out *)
ResizeSkipped(img) == img

(* lines 127-138: an image of more than max_pixels is scaled by           *)
(* sqrt(max_pixels / pixels), each side truncated; int(w * sqrt(m/(w*h))) *)
(* is floor(sqrt(w * m / h))                                              *)
ResizeForSafety(img) ==
    IF Pixels(img) > max_pixels
    THEN Img(ISqrt(MulDiv(img.w, max_pixels, img.h)),
             ISqrt(MulDiv(img.h, max_pixels, img.w)), img.mode)
    ELSE img

(* line 140 *)
MaxSizeBytes(max_size_mb) == max_size_mb * 1024 * 1024

(* a slip: a candidate of exactly the limit refused *)
WithinLimitStrict(size, limit) == size < limit

(* lines 176, 202, 259: the test a candidate passes *)
WithinLimit(size, limit) == size <= limit

(* lines 187-190, 231-234: transparency flattened onto white *)
ToRGB(img) == IF img.mode = "RGBA" THEN [img EXCEPT !.mode = "RGB"] ELSE img

(* line 221: int(max_dimension * resize_factor), the factor in tenths.    *)
(* The page sizes of RawImages are ones where the double product          *)
(* truncates to the same integer.                                         *)
TargetDimension(max_dimension, factor) == (max_dimension * factor) \div 10

(* a slip: the floor taken at half its value *)
BelowHalfFloor(target_dimension) == 2 * target_dimension < LegibilityFloor

(* line 224 *)
BelowFloor(target_dimension) == target_dimension < LegibilityFloor

(* Pillow's round_aspect: the nearer of floor and ceiling, floor on a tie, *)
(* at least 1                                                              *)
RoundAspect(num, den) ==
    LET q == num \div den
        r == num % den
    IN  Max(IF 2 * r > den THEN q + 1 ELSE q, 1)

(* line 228: Image.thumbnail((t, t)): the aspect ratio kept, no side      *)
(* longer than t                                                          *)
Thumbnail(img, t) ==
    IF t >= img.w /\ t >= img.h THEN img
    ELSE IF img.w <= img.h
         THEN Img(RoundAspect(t * img.w, img.h), t, img.mode)
         ELSE Img(t, RoundAspect(t * img.h, img.w), img.mode)

(* a slip: both axes scaled by the ratio of the widths *)
ScaledPointByWidth(point, new_width, original_width, new_height, original_height) ==
    <<RatScale(point[1], new_width, original_width),
      RatScale(point[2], new_width, original_width)>>

(* lines 243-254: every point of every region times                      *)
(* (new_width / original_width, new_height / original_height)            *)
ScaledPoint(point, new_width, original_width, new_height, original_height) ==
    <<RatScale(point[1], new_width, original_width),
      RatScale(point[2], new_height, original_height)>>

ScaledOcrResults(ocr, new_width, original_width, new_height, original_height) ==
    [i \in DOMAIN ocr |->
        [ocr[i] EXCEPT !.bbox =
            [j \in DOMAIN ocr[i].bbox |->
                ScaledPoint(ocr[i].bbox[j], new_width, original_width,
                            new_height, original_height)]]]

(* a slip: a confidence of exactly the threshold let through *)
ConfidentOrEqual(region) == region.confidence >= ConfidenceThreshold

(* line 156 *)
Confident(region) == region.confidence > ConfidenceThreshold

(* lines 157-167: one drawString; the font is max(8, height * 0.8) *)
DrawString(region, img_height) ==
    LET p1 == region.bbox[1]
        p3 == region.bbox[3]
        height == RatSub(p3[2], p1[2])
    IN  [text |-> region.text,
         x |-> p1[1],
         y |-> RatSub(RatOfInt(img_height), p3[2]),
         font |-> RatMax(RatOfInt(MinFontSize), RatScale(height, 4, 5))]

(* lines 145-170: the page written at `path`, of the size the writer      *)
(* reports; tier is a history field: the step of the search that wrote it *)
create_pdf_with_image(img, ocr_data, size) ==
    LET kept == SelectSeq(ocr_data, Confident)
    IN  [w |-> img.w, h |-> img.h, mode |-> img.mode, regions |-> ocr_data,
         drawn |-> [i \in DOMAIN kept |-> DrawString(kept[i], img.h)],
         size |-> size, tier |-> NoSettings]

Tagged(page, tier) == [page EXCEPT !.tier = tier]

----------------------------------------------------------------------------
(* What the collaborators may answer *)

(* pdf2image: the pages a document may rasterise to *)
RawImages ==
    {Img(3000, 4000, "RGB"), Img(800, 1000, "RGBA"), Img(400, 500, "RGB"),
     Img(10000, 8000, "RGB")}

(* EasyOCR: the regions it finds on an image: confident, doubtful and   *)
(* borderline ones, the last a line too low for the 0.8 font rule       *)
OcrChoices(img) ==
    {<<Region(img.w \div 10, img.h \div 10, img.w \div 2, img.h \div 5, "alpha", 90),
       Region(img.w \div 10, img.h \div 4, img.w \div 2, img.h \div 3, "beta", 40),
       Region(img.w \div 5, img.h \div 2, img.w \div 2, (img.h \div 2) + 40, "gamma", 60),
       Region(img.w \div 5, (img.h \div 4) * 3, img.w \div 2, ((img.h \div 4) * 3) + 5,
              "delta", 50)>>}

(* the byte budget of the run, as the caller states it *)
Budget == max_output_size * BytesPerMB

(* reportlab: the sizes os.path.getsize may report for a page: under the *)
(* budget, exactly the budget, one byte over, well over                  *)
SizeChoices ==
    {Budget - (BytesPerMB \div 2), Budget, Budget + 1, Budget + 3 * BytesPerMB}

(* the slider of main *)
BudgetChoices == {5, 10}

----------------------------------------------------------------------------
(* create_searchable_pdf(image, ocr_results, output_path, max_size_mb) *)

Attempt(tier, size) == [tier |-> tier, fits |-> size <= Budget]

Smaller(page, best) ==
    IF best = NoFile \/ page.size < best.size THEN page ELSE best

(* lines 127-181: the guard, the first assembly and its test *)
AssembleOriginal ==
    /\ pc = "called"
    /\ LET img == ResizeForSafety(argImage)
           limit == MaxSizeBytes(max_output_size)
       IN  /\ image' = img
           /\ max_size_bytes' = limit
           /\ \/ \E size \in SizeChoices :
                    LET page == Tagged(create_pdf_with_image(img, ocr_results, size),
                                       NoCompression)
                    IN  /\ file_size' = size
                        /\ attempts' = Append(attempts, Attempt(NoCompression, size))
                        /\ smallest' = Smaller(page, smallest)
                        /\ IF WithinLimit(size, limit)
                           THEN /\ output_file' = page
                                /\ temp_file' = NoFile
                                /\ pc' = "returned"
                                /\ qi' = qi
                           ELSE /\ temp_file' = page
                                /\ output_file' = output_file
                                /\ pc' = "quality"
                                /\ qi' = 1
                        /\ raised' = raised
              \/ /\ pc' = "raised"
                 /\ raised' = "CodecFailure"
                 /\ UNCHANGED <<file_size, attempts, smallest, temp_file,
                                output_file, qi>>
    /\ UNCHANGED validateVars
    /\ UNCHANGED <<max_output_size, firstPlan, lastSettings, cacheDoc,
                   cacheWrites, docVars, argImage, detImage, ocr_results,
                   test_size, ri, resize_factor>>

(* lines 184-213: one pass of the quality loop *)
TryQuality ==
    /\ pc = "quality"
    /\ LET quality == qualities[qi]
           test_image == ToRGB(image)
       IN  \/ \E size \in SizeChoices :
                LET page == Tagged(create_pdf_with_image(test_image, ocr_results, size),
                                   JpegOnly(quality))
                IN  /\ test_size' = size
                    /\ attempts' = Append(attempts, Attempt(JpegOnly(quality), size))
                    /\ smallest' = Smaller(page, smallest)
                    /\ IF WithinLimit(size, max_size_bytes)
                       THEN /\ lastSettings' = JpegOnly(quality)
                            /\ cacheDoc' = docNo
                            /\ cacheWrites' = Append(cacheWrites, page_num)
                            /\ output_file' = page
                            /\ temp_file' = NoFile
                            /\ pc' = "returned"
                            /\ UNCHANGED <<qi, ri>>
                       ELSE /\ temp_file' = page
                            /\ UNCHANGED <<lastSettings, cacheDoc,
                                           cacheWrites, output_file>>
                            /\ IF qi < Len(qualities)
                               THEN /\ qi' = qi + 1
                                    /\ UNCHANGED <<pc, ri>>
                               ELSE /\ pc' = "resize"
                                    /\ ri' = 1
                                    /\ qi' = qi
                    /\ raised' = raised
           \/ /\ pc' = "raised"
              /\ raised' = "CodecFailure"
              /\ UNCHANGED <<test_size, attempts, smallest, lastSettings,
                             cacheDoc, cacheWrites, output_file, temp_file,
                             qi, ri>>
    /\ UNCHANGED validateVars
    /\ UNCHANGED <<max_output_size, firstPlan, docVars, argImage, detImage,
                   image, ocr_results, max_size_bytes, file_size,
                   resize_factor>>

(* lines 216-271: one pass of the resize loop *)
TryResize ==
    /\ pc = "resize"
    /\ LET factor == resize_factors[ri]
           original_width == image.w
           original_height == image.h
           max_dimension == Max(original_width, original_height)
           target_dimension == TargetDimension(max_dimension, factor)
           compressed_image == ToRGB(Thumbnail(image, target_dimension))
           scaled_ocr_results ==
               ScaledOcrResults(ocr_results, compressed_image.w, original_width,
                                compressed_image.h, original_height)
       IN  /\ resize_factor' = factor
           /\ \/ /\ BelowFloor(target_dimension)
                 /\ pc' = "fallback"
                 /\ UNCHANGED <<test_size, attempts, smallest, lastSettings,
                                cacheDoc, cacheWrites, output_file, temp_file,
                                ri, raised>>
              \/ /\ ~BelowFloor(target_dimension)
                 /\ \E size \in SizeChoices :
                      LET page == Tagged(create_pdf_with_image(compressed_image,
                                             scaled_ocr_results, size),
                                         ResizeAndJpeg(factor, ResizeJpegQuality))
                      IN  /\ test_size' = size
                          /\ attempts' = Append(attempts,
                                 Attempt(ResizeAndJpeg(factor, ResizeJpegQuality), size))
                          /\ smallest' = Smaller(page, smallest)
                          /\ IF WithinLimit(size, max_size_bytes)
                             THEN /\ lastSettings' = ResizeAndJpeg(factor, ResizeJpegQuality)
                                  /\ cacheDoc' = docNo
                                  /\ cacheWrites' = Append(cacheWrites, page_num)
                                  /\ output_file' = page
                                  /\ temp_file' = NoFile
                                  /\ pc' = "returned"
                                  /\ ri' = ri
                             ELSE /\ temp_file' = page
                                  /\ UNCHANGED <<lastSettings, cacheDoc,
                                                 cacheWrites, output_file>>
                                  /\ IF ri < Len(resize_factors)
                                     THEN /\ ri' = ri + 1
                                          /\ pc' = pc
                                     ELSE /\ pc' = "fallback"
                                          /\ ri' = ri
                          /\ raised' = raised
              \/ /\ ~BelowFloor(target_dimension)
                 /\ pc' = "raised"
                 /\ raised' = "CodecFailure"
                 /\ UNCHANGED <<test_size, attempts, smallest, lastSettings,
                                cacheDoc, cacheWrites, output_file, temp_file,
                                ri>>
    /\ UNCHANGED validateVars
    /\ UNCHANGED <<max_output_size, firstPlan, docVars, argImage, detImage,
                   image, ocr_results, max_size_bytes, file_size, qi>>

(* line 291: 'resize_factor' in locals(); 0 is the unbound name *)
InLocals(local) == local # 0

(* lines 290-303: the settings the fallback caches *)
FinalSettings(local_resize_factor) ==
    IF InLocals(local_resize_factor)
    THEN ResizeAndJpeg(local_resize_factor, ResizeJpegQuality)
    ELSE JpegOnly(LastQualityTried)

(* a slip: the fallback returns with its best effort instead of raising *)
FallbackReturns ==
    /\ pc = "fallback"
    /\ output_file' = temp_file
    /\ temp_file' = NoFile
    /\ lastSettings' = FinalSettings(resize_factor)
    /\ cacheDoc' = docNo
    /\ cacheWrites' = Append(cacheWrites, page_num)
    /\ pc' = "returned"
    /\ UNCHANGED validateVars
    /\ UNCHANGED <<max_output_size, firstPlan, docVars, argImage, detImage,
                   image, ocr_results, max_size_bytes, file_size, test_size,
                   qi, ri, resize_factor, attempts, smallest, raised>>

(* lines 273-305: no candidate passed.  The candidate is renamed to       *)
(* output_path (275), the test of 278 fails since file_size is over the   *)
(* limit, the settings are cached, and the second rename of 305 finds no  *)
(* temporary file: FileNotFoundError leaves the function                  *)
Fallback ==
    /\ pc = "fallback"
    /\ output_file' = temp_file
    /\ temp_file' = NoFile
    /\ IF WithinLimit(file_size, max_size_bytes)
       THEN /\ lastSettings' = NoCompression
            /\ cacheDoc' = docNo
            /\ cacheWrites' = Append(cacheWrites, page_num)
            /\ pc' = "raised"
            /\ raised' = "FileNotFoundError"
       ELSE /\ lastSettings' = FinalSettings(resize_factor)
            /\ cacheDoc' = docNo
            /\ cacheWrites' = Append(cacheWrites, page_num)
            /\ pc' = "raised"
            /\ raised' = "FileNotFoundError"
    /\ UNCHANGED validateVars
    /\ UNCHANGED <<max_output_size, firstPlan, docVars, argImage, detImage,
                   image, ocr_results, max_size_bytes, file_size, test_size,
                   qi, ri, resize_factor, attempts, smallest>>

----------------------------------------------------------------------------
(* process_single_pdf(pdf_file, pdf_name, max_output_size_mb) *)

(* lines 370-379: the same guard, applied to every page before OCR *)
ProcessedImage(img) ==
    IF Pixels(img) > max_pixels
    THEN Img(ISqrt(MulDiv(img.w, max_pixels, img.h)),
             ISqrt(MulDiv(img.h, max_pixels, img.w)), img.mode)
    ELSE img

(* pdf2image: the numbers of pages a file may rasterise to *)
PageCounts == 1..MaxPages

Returned(pdfs, error) == [pdfs |-> pdfs, error |-> error]
NoResult == Returned(<<>>, "pending")

(* line 393: where the loop goes after page n of total *)
LoopNext(n, total) == IF n < total THEN "ocr" ELSE "return"

(* a slip: the handler leaves the loop *)
PageExceptionBreaks(n, total) == "return"

(* lines 439-443: the handler of a page's exception ends in continue *)
PageExceptionHandler(n, total) == LoopNext(n, total)

IdleFrame ==
    /\ pc' = "idle"
    /\ argImage' = NoImage
    /\ detImage' = NoImage
    /\ image' = NoImage
    /\ ocr_results' = <<>>
    /\ max_size_bytes' = 0
    /\ file_size' = 0
    /\ test_size' = 0
    /\ qi' = 0
    /\ ri' = 0
    /\ resize_factor' = 0
    /\ temp_file' = NoFile
    /\ output_file' = NoFile
    /\ attempts' = <<>>
    /\ smallest' = NoFile
    /\ raised' = "none"

(* a slip: the directory left where it is *)
CleanupSkipped(dir) == {dir}

(* lines 456-463: the finally of the function: a directory that was     *)
(* made is removed, or is kept when rmtree raises; the exception of      *)
(* rmtree is logged and goes no further                                  *)
Cleanup(dir) == IF dir = "created" THEN {"removed", "kept"} ELSE {dir}

(* lines 323-361: what mkdtemp, the OCR reader's construction and the   *)
(* rasteriser may raise: a missing library, or anything else            *)
SetupExceptions == {"ImportError", "Exception"}

(* a slip: only the missing library caught, the rest left to the caller *)
OuterHandlerImportOnly(exception) ==
    IF exception = "ImportError"
    THEN Returned(<<>>, "Missing required Python library")
    ELSE Returned(<<>>, exception)

(* lines 448-455: the handlers of the function's try *)
OuterHandler(exception) ==
    IF exception = "ImportError"
    THEN Returned(<<>>, "Missing required Python library")
    ELSE Returned(<<>>, "Unexpected error")

(* lines 310-391: validation, the temporary directory, the reader, the    *)
(* rasteriser and the guard of every page.  The rasteriser fixes the      *)
(* pages here; no step reads a page before the loop reaches it, so the    *)
(* model learns each page's image when ReadText gets to it.               *)
ProcessSinglePdf ==
    /\ pdfPc \in {"idle", "done"}
    /\ docNo < MaxDocs
    /\ docNo' = docNo + 1
    /\ processed_pdfs' = <<>>
    /\ compression_settings' = NoSettings
    /\ pageLog' = <<>>
    /\ page_num' = 1
    /\ \/ /\ result' = Returned(<<>>, "validation_error")
          /\ pdfPc' = "done"
          /\ total_pages' = 0
          /\ temp_dir' = "None"
       \/ \E exception \in SetupExceptions, dir \in {"None", "created"} :
             /\ result' = OuterHandler(exception)
             /\ pdfPc' = "done"
             /\ total_pages' = 0
             /\ temp_dir' \in Cleanup(dir)
       \/ /\ result' = Returned(<<>>, "No pages could be extracted")
          /\ pdfPc' = "done"
          /\ total_pages' = 0
          /\ temp_dir' \in Cleanup("created")
       \/ \E n \in PageCounts :
             /\ total_pages' = n
             /\ result' = NoResult
             /\ pdfPc' = "ocr"
             /\ temp_dir' = "created"
    /\ page_image' = NoImage
    /\ cacheWrites' = <<>>
    /\ UNCHANGED validateVars
    /\ UNCHANGED <<max_output_size, firstPlan, lastSettings, cacheDoc,
                   searchVars>>

(* lines 370-379 and 393-415: the page of this turn, guarded, and its    *)
(* OCR; the first page then enters create_searchable_pdf                 *)
(* Nothing reads the loop's image once its page is dealt with: the model *)
(* lets go of it there.                                                  *)
ReadText ==
    /\ pdfPc = "ocr"
    /\ \E raw \in RawImages :
         LET img == ProcessedImage(raw)
         IN  \/ \E regions \in OcrChoices(img) :
                   /\ page_image' = img
                   /\ ocr_results' = regions
                   /\ detImage' = img
                   /\ IF page_num = 1
                      THEN /\ pdfPc' = "create"
                           /\ pc' = "called"
                           /\ argImage' = img
                      ELSE /\ pdfPc' = "cached"
                           /\ pc' = pc
                           /\ argImage' = argImage
                   /\ UNCHANGED <<page_num, pageLog, image, max_size_bytes,
                                  file_size, test_size, qi, ri, resize_factor,
                                  temp_file, output_file, attempts, smallest,
                                  raised>>
             \/ /\ page_image' = NoImage
                /\ pageLog' = Append(pageLog, "OcrFailure")
                /\ pdfPc' = PageExceptionHandler(page_num, total_pages)
                /\ page_num' = IF pdfPc' = "ocr" THEN page_num + 1 ELSE page_num
                /\ UNCHANGED searchVars
    /\ UNCHANGED validateVars
    /\ UNCHANGED <<max_output_size, firstPlan, lastSettings, cacheDoc,
                   cacheWrites, docNo, temp_dir, total_pages,
                   compression_settings,
                   processed_pdfs, result>>

(* the input whose searches are compared with one another: a page of    *)
(* 3000 x 4000 with the regions found on it, under the budget of the    *)
(* run, every assembly of it reported at exactly the budget; such a     *)
(* search is over after its first assembly                              *)
ReferenceImage == Img(3000, 4000, "RGB")
IsReferenceRun ==
    /\ image = ReferenceImage
    /\ attempts = <<Attempt(NoCompression, Budget)>>
    /\ file_size = Budget
NotRun == Settings("not run", 0, 0)

(* lines 415-437: create_searchable_pdf returned; the cache is read, the  *)
(* output file is read and appended                                       *)
StorePage ==
    /\ pdfPc = "create"
    /\ pc = "returned"
    /\ compression_settings' = lastSettings
    /\ firstPlan' =
           IF docNo = 1 /\ IsReferenceRun THEN lastSettings ELSE firstPlan
    /\ IF output_file = NoFile \/ output_file.size = 0
       THEN /\ processed_pdfs' = processed_pdfs
            /\ pageLog' = Append(pageLog, "NoOutput")
       ELSE /\ processed_pdfs' =
                   Append(processed_pdfs, [page |-> page_num, data |-> output_file])
            /\ pageLog' = Append(pageLog, "stored")
    /\ pdfPc' = LoopNext(page_num, total_pages)
    /\ page_num' = IF pdfPc' = "ocr" THEN page_num + 1 ELSE page_num
    /\ IdleFrame
    /\ page_image' = NoImage
    /\ UNCHANGED validateVars
    /\ UNCHANGED <<max_output_size, lastSettings, cacheDoc, cacheWrites,
                   docNo, temp_dir, total_pages, result>>

(* lines 439-443: create_searchable_pdf raised *)
PageFailed ==
    /\ pdfPc = "create"
    /\ pc = "raised"
    /\ pageLog' = Append(pageLog, raised)
    /\ pdfPc' = PageExceptionHandler(page_num, total_pages)
    /\ page_num' = IF pdfPc' = "ocr" THEN page_num + 1 ELSE page_num
    /\ IdleFrame
    /\ page_image' = NoImage
    /\ UNCHANGED validateVars
    /\ UNCHANGED <<max_output_size, firstPlan, lastSettings, cacheDoc,
                   cacheWrites, docNo, temp_dir, total_pages,
                   compression_settings,
                   processed_pdfs, result>>

(* a slip: a later page records a plan of its own *)
ApplyCachedSettingsRewrites ==
    /\ pdfPc = "cached"
    /\ lastSettings' = JpegOnly(LastQualityTried)
    /\ cacheDoc' = docNo
    /\ cacheWrites' = Append(cacheWrites, page_num)
    /\ pageLog' = Append(pageLog, "NameError")
    /\ pdfPc' = PageExceptionHandler(page_num, total_pages)
    /\ page_num' = IF pdfPc' = "ocr" THEN page_num + 1 ELSE page_num
    /\ IdleFrame
    /\ page_image' = NoImage
    /\ UNCHANGED validateVars
    /\ UNCHANGED <<max_output_size, firstPlan, docNo, temp_dir, total_pages,
                   compression_settings, processed_pdfs, result>>

(* line 420: app.py neither defines nor imports                           *)
(* create_searchable_pdf_with_settings, so the call raises NameError,     *)
(* which the handler of lines 439-443 takes                               *)
ApplyCachedSettings ==
    /\ pdfPc = "cached"
    /\ pageLog' = Append(pageLog, "NameError")
    /\ pdfPc' = PageExceptionHandler(page_num, total_pages)
    /\ page_num' = IF pdfPc' = "ocr" THEN page_num + 1 ELSE page_num
    /\ IdleFrame
    /\ page_image' = NoImage
    /\ UNCHANGED validateVars
    /\ UNCHANGED <<max_output_size, firstPlan, lastSettings, cacheDoc,
                   cacheWrites, docNo, temp_dir, total_pages,
                   compression_settings,
                   processed_pdfs, result>>

(* lines 445-446 *)
ReturnProcessed ==
    /\ pdfPc = "return"
    /\ result' = Returned(processed_pdfs, "None")
    /\ pdfPc' = "done"
    /\ temp_dir' \in Cleanup(temp_dir)
    /\ UNCHANGED validateVars
    /\ UNCHANGED <<max_output_size, firstPlan, lastSettings, cacheDoc,
                   cacheWrites, docNo, total_pages, page_image, page_num,
                   compression_settings, processed_pdfs, pageLog, searchVars>>

----------------------------------------------------------------------------
(* validate_pdf_file(pdf_file, pdf_name) *)

(* an uploaded stream: its length in bytes, what a PDF parser finds in it *)
(* (pages = -1: not a PDF), whether it can be repositioned, where it     *)
(* stands, and (history) whether PdfReader was given it                  *)
Upload(size, pages, seekable, position) ==
    [size |-> size, pages |-> pages, seekable |-> seekable,
     position |-> position, parsed |-> FALSE]
NoUpload == Upload(0, 0, FALSE, 0)

(* the streams main may hand over: short, just under, at and over the    *)
(* limit; not a PDF, no page, one page, several; read from or not        *)
UploadSizes ==
    {1024, MAX_FILE_SIZE_BYTES - 1, MAX_FILE_SIZE_BYTES, MAX_FILE_SIZE_BYTES + 1,
     2 * MAX_FILE_SIZE_BYTES}
UploadPages == {-1, 0, 1, 3}
Uploads ==
    {Upload(size, pages, seekable, position) :
        size \in UploadSizes, pages \in UploadPages, seekable \in BOOLEAN,
        position \in {0, 7}}

Validated(is_valid, error) == [is_valid |-> is_valid, error |-> error]
NotValidated == Validated(FALSE, "pending")

(* a slip: the sizes compared in whole megabytes *)
OverLimitInWholeMB(bytes) == bytes \div BytesPerMB > MAX_FILE_SIZE_MB

(* line 79: file_size > MAX_FILE_SIZE_BYTES *)
OverLimit(bytes) == bytes > MAX_FILE_SIZE_BYTES

(* lines 74-80, 95-98: the size is taken by seeking to the end, the      *)
(* stream is put back at 0, and a stream over the limit is refused; a    *)
(* stream that cannot seek raises, which the handler of 95-98 returns    *)
CheckFileSize ==
    /\ vpc = "called"
    /\ IF ~pdf_file.seekable
       THEN /\ validation' = Validated(FALSE, "Validation error")
            /\ vpc' = "returned"
            /\ pdf_file' = pdf_file
       ELSE /\ pdf_file' = [pdf_file EXCEPT !.position = 0]
            /\ IF OverLimit(pdf_file.size)
               THEN /\ validation' = Validated(FALSE, "File size exceeds limit")
                    /\ vpc' = "returned"
               ELSE /\ validation' = validation
                    /\ vpc' = "format"
    /\ UNCHANGED programVars

(* line 84: PdfReader reads the stream, leaving it wherever it stopped *)
ParsePdf ==
    /\ vpc = "format"
    /\ \E stopped \in {0, pdf_file.size \div 2, pdf_file.size} :
          pdf_file' = [pdf_file EXCEPT !.position = stopped, !.parsed = TRUE]
    /\ vpc' = "parsed"
    /\ UNCHANGED <<validation, programVars>>

(* lines 85-93: no page, or not a PDF, is refused; in each case the      *)
(* finally of 90-91 puts the stream back at 0 before the return          *)
FinishValidation ==
    /\ vpc = "parsed"
    /\ pdf_file' = [pdf_file EXCEPT !.position = 0]
    /\ validation' =
           IF pdf_file.pages < 0 THEN Validated(FALSE, "Invalid PDF format")
           ELSE IF pdf_file.pages = 0
                THEN Validated(FALSE, "PDF file contains no pages")
                ELSE Validated(TRUE, "None")
    /\ vpc' = "returned"
    /\ UNCHANGED programVars

----------------------------------------------------------------------------
(* The program: main hands every uploaded file to process_single_pdf *)

Init ==
    /\ max_output_size \in BudgetChoices
    /\ lastSettings = NoSettings
    /\ cacheDoc = 0
    /\ cacheWrites = <<>>
    /\ firstPlan = NotRun
    /\ docNo = 0
    /\ pdfPc = "idle"
    /\ temp_dir = "None"
    /\ total_pages = 0
    /\ page_image = NoImage
    /\ page_num = 0
    /\ compression_settings = NoSettings
    /\ processed_pdfs = <<>>
    /\ pageLog = <<>>
    /\ result = NoResult
    /\ pc = "idle"
    /\ argImage = NoImage
    /\ detImage = NoImage
    /\ image = NoImage
    /\ ocr_results = <<>>
    /\ max_size_bytes = 0
    /\ file_size = 0
    /\ test_size = 0
    /\ qi = 0
    /\ ri = 0
    /\ resize_factor = 0
    /\ temp_file = NoFile
    /\ output_file = NoFile
    /\ attempts = <<>>
    /\ smallest = NoFile
    /\ raised = "none"
    /\ pdf_file = NoUpload
    /\ vpc = "idle"
    /\ validation = NotValidated

Next ==
    \/ ProcessSinglePdf
    \/ ReadText
    \/ AssembleOriginal
    \/ TryQuality
    \/ TryResize
    \/ Fallback
    \/ StorePage
    \/ PageFailed
    \/ ApplyCachedSettings
    \/ ReturnProcessed

Spec == Init /\ [][Next]_vars

(* create_searchable_pdf called on its own, with any image and the        *)
(* regions found on that image                                            *)
InitSearch ==
    /\ max_output_size \in BudgetChoices
    /\ lastSettings = NoSettings
    /\ cacheDoc = 0
    /\ cacheWrites = <<>>
    /\ firstPlan = NotRun
    /\ docNo = 0
    /\ pdfPc = "direct"
    /\ temp_dir = "None"
    /\ total_pages = 0
    /\ page_image = NoImage
    /\ page_num = 0
    /\ compression_settings = NoSettings
    /\ processed_pdfs = <<>>
    /\ pageLog = <<>>
    /\ result = NoResult
    /\ pc = "called"
    /\ argImage \in RawImages
    /\ detImage = argImage
    /\ image = NoImage
    /\ ocr_results \in OcrChoices(argImage)
    /\ max_size_bytes = 0
    /\ file_size = 0
    /\ test_size = 0
    /\ qi = 0
    /\ ri = 0
    /\ resize_factor = 0
    /\ temp_file = NoFile
    /\ output_file = NoFile
    /\ attempts = <<>>
    /\ smallest = NoFile
    /\ raised = "none"
    /\ pdf_file = NoUpload
    /\ vpc = "idle"
    /\ validation = NotValidated

NextSearch ==
    \/ AssembleOriginal
    \/ TryQuality
    \/ TryResize
    \/ Fallback

SpecSearch == InitSearch /\ [][NextSearch]_vars

(* validate_pdf_file called on its own, with any stream *)
InitValidate ==
    /\ max_output_size = 10
    /\ lastSettings = NoSettings
    /\ cacheDoc = 0
    /\ cacheWrites = <<>>
    /\ firstPlan = NotRun
    /\ docNo = 0
    /\ pdfPc = "idle"
    /\ temp_dir = "None"
    /\ total_pages = 0
    /\ page_image = NoImage
    /\ page_num = 0
    /\ compression_settings = NoSettings
    /\ processed_pdfs = <<>>
    /\ pageLog = <<>>
    /\ result = NoResult
    /\ pc = "idle"
    /\ argImage = NoImage
    /\ detImage = NoImage
    /\ image = NoImage
    /\ ocr_results = <<>>
    /\ max_size_bytes = 0
    /\ file_size = 0
    /\ test_size = 0
    /\ qi = 0
    /\ ri = 0
    /\ resize_factor = 0
    /\ temp_file = NoFile
    /\ output_file = NoFile
    /\ attempts = <<>>
    /\ smallest = NoFile
    /\ raised = "none"
    /\ pdf_file \in Uploads
    /\ vpc = "called"
    /\ validation = NotValidated

NextValidate ==
    \/ CheckFileSize
    \/ ParsePdf
    \/ FinishValidation

SpecValidate == InitValidate /\ [][NextValidate]_vars

----------------------------------------------------------------------------
(* What the claims speak of *)

ClaimQualityLadder == <<90, 80, 70, 60>>
ClaimScaleLadder == <<9, 8, 7, 6, 5>>

SearchEnded == pc \in {"returned", "raised"}
NoneFits == attempts # <<>> /\ \A i \in DOMAIN attempts : ~attempts[i].fits
Files == {temp_file, output_file} \ {NoFile}
SameBitmap(page, img) == page.w = img.w /\ page.h = img.h

(* C1: when the Original assembly is over the budget and a quality of    *)
(* 90, 80, 70, 60 gives an assembly within it, the search ends at the    *)
(* first such quality: every assembly before it was over the budget, the *)
(* qualities were tried in that order, the output is that assembly, the  *)
(* cached plan is jpeg_only at that quality, and nothing is tried after. *)
C1_FirstFittingQuality ==
    \A i \in DOMAIN attempts :
        (attempts[i].tier.method = "jpeg_only" /\ attempts[i].fits) =>
            /\ pc = "returned"
            /\ i = Len(attempts)
            /\ i \in 2..5
            /\ attempts[1].tier = NoCompression
            /\ \A j \in 1..(i - 1) : ~attempts[j].fits
            /\ \A j \in 2..i : attempts[j].tier = JpegOnly(ClaimQualityLadder[j - 1])
            /\ lastSettings = JpegOnly(ClaimQualityLadder[i - 1])
            /\ output_file.tier = JpegOnly(ClaimQualityLadder[i - 1])
            /\ output_file.size <= Budget
            /\ SameBitmap(output_file, image)
            /\ temp_file = NoFile

(* the scenario of C1: 90 and 80 over the budget, 70 under it *)
C1_Witness ==
    /\ pc = "returned"
    /\ Len(attempts) = 4
    /\ attempts[4].fits
    /\ output_file.size < Budget
    /\ lastSettings = JpegOnly(70)
    /\ image = Img(3000, 4000, "RGB")

(* C2: when the assembly of the unmodified bitmap is within the budget,  *)
(* the search ends there, the output is that assembly at its size, and   *)
(* the plan the search leaves for its caller is Original.                *)
C2_OriginalPlanReturned ==
    (pc = "returned" /\ Len(attempts) = 1 /\ attempts[1].fits) =>
        /\ output_file.tier = NoCompression
        /\ output_file.size = file_size
        /\ SameBitmap(output_file, image)
        /\ lastSettings = NoCompression

(* C3: when the Original and all four quality assemblies are over the    *)
(* budget, the scales 0.9, 0.8, 0.7, 0.6, 0.5 are tried in that order at *)
(* quality 75; the search ends at the first scale whose assembly is      *)
(* within the budget, the cached plan is resize_and_jpeg at that scale   *)
(* and 75, and no smaller scale is tried.                                *)
C3_FirstFittingScale ==
    \A i \in DOMAIN attempts :
        (attempts[i].tier.method = "resize_and_jpeg") =>
            /\ i \in 6..10
            /\ attempts[1].tier = NoCompression
            /\ \A j \in 2..5 : attempts[j].tier = JpegOnly(ClaimQualityLadder[j - 1])
            /\ \A j \in 1..(i - 1) : ~attempts[j].fits
            /\ attempts[i].tier =
                   ResizeAndJpeg(ClaimScaleLadder[i - 5], 75)
            /\ attempts[i].fits =>
                   /\ pc = "returned"
                   /\ i = Len(attempts)
                   /\ lastSettings =
                          ResizeAndJpeg(ClaimScaleLadder[i - 5], 75)
                   /\ output_file.tier = lastSettings
                   /\ output_file.size <= Budget
                   /\ temp_file = NoFile

(* the scenario of C3: 0.9 and 0.8 over the budget, 0.7 under it *)
C3_Witness ==
    /\ pc = "returned"
    /\ Len(attempts) = 8
    /\ attempts[8].fits
    /\ output_file.size < Budget
    /\ lastSettings = ResizeAndJpeg(7, 75)
    /\ image = Img(3000, 4000, "RGB")
    /\ SameBitmap(output_file, Img(2100, 2800, "RGB"))

(* C4: when no assembly of the search is within the budget (and the      *)
(* codec did not fail), create_searchable_pdf ends by returning, with    *)
(* the best-effort file at the output path: it raises nothing.           *)
C4_BudgetUnmetReturned ==
    (SearchEnded /\ NoneFits /\ raised # "CodecFailure") =>
        (pc = "returned" /\ raised = "none" /\ output_file # NoFile)

(* C5: a page after the first, once its text is read, is not lost at the *)
(* step that applies the cached plan: it is stored, or it ends in a      *)
(* search of its own; and no such page is stored over the budget.        *)
C5_CachedPlanFallsBack ==
    /\ \A p \in DOMAIN pageLog : p > 1 => pageLog[p] # "NameError"
    /\ \A k \in DOMAIN processed_pdfs :
           processed_pdfs[k].page > 1 => processed_pdfs[k].data.size <= Budget

(* C6: a document whose pages meet no OCR, codec or file failure comes   *)
(* back with one output page per page.                                   *)
C6_EveryPageDelivered ==
    (/\ pdfPc = "done"
     /\ result.error = "None"
     /\ \A p \in DOMAIN pageLog :
            pageLog[p] \notin {"OcrFailure", "CodecFailure", "FileNotFoundError"})
        => Len(result.pdfs) = total_pages

(* C7: the regions of every assembled page are the detected regions      *)
(* scaled by (page width / detection width, page height / detection      *)
(* height): they are in the coordinates of the bitmap drawn.             *)
C7_RegionsMatchBitmap ==
    \A f \in Files :
        f.regions = ScaledOcrResults(ocr_results, f.w, detImage.w, f.h, detImage.h)

(* C8 as stated: no output has a longest dimension below 600 px. *)
C8_NoOutputBelowFloor ==
    output_file # NoFile =>
        LongestDimension(output_file) >= 600

(* C8 as amended: no page made by the resize ladder has a longest        *)
(* dimension below 600 px, and every other page keeps the dimensions of  *)
(* the bitmap the search was given (after the guard), whatever they are. *)
C8_NoResizeBelowFloor ==
    \A f \in Files :
        IF f.tier.method = "resize_and_jpeg"
        THEN LongestDimension(f) >= 600
        ELSE SameBitmap(f, image)

(* the ladder stopped at the floor with the budget unmet: 800 x 1000,    *)
(* 0.6 gave 480 x 600 and 0.5 would give 500                             *)
C8_Witness ==
    /\ pc = "raised"
    /\ raised = "FileNotFoundError"
    /\ image = Img(800, 1000, "RGBA")
    /\ resize_factor = 5
    /\ SameBitmap(output_file, Img(480, 600, "RGB"))
    /\ NoneFits

(* C9: when process_single_pdf returns from its page loop, every page    *)
(* was attempted, in order, whatever failed on the others; the pages     *)
(* returned are exactly those stored, in order; the error value is None. *)
C9_PageFailuresConfined ==
    /\ pdfPc \in {"ocr", "create", "cached"} => Len(pageLog) = page_num - 1
    /\ pdfPc = "return" => Len(pageLog) = total_pages
    /\ (pdfPc = "done" /\ total_pages > 0) =>
          LET stored == {p \in DOMAIN pageLog : pageLog[p] = "stored"}
          IN  /\ result.error = "None"
              /\ Len(pageLog) = total_pages
              /\ {result.pdfs[k].page : k \in DOMAIN result.pdfs} = stored
              /\ Len(result.pdfs) = Cardinality(stored)
              /\ \A k \in DOMAIN result.pdfs :
                     k > 1 => result.pdfs[k - 1].page < result.pdfs[k].page

(* the first page failed in the codec and the second was still attempted *)
C9_Witness ==
    /\ pdfPc = "done"
    /\ total_pages = 2
    /\ pageLog[1] = "CodecFailure"
    /\ Len(pageLog) = 2
    /\ result.error = "None"

(* C10: the plan a call of process_single_pdf holds after its first page *)
(* was cached during that same call.                                     *)
C10_NoStalePlan ==
    compression_settings # NoSettings => cacheDoc = docNo

(* C11: when the search ends in its fallback (no assembly was within the *)
(* budget), the file left at the output path is no larger than any       *)
(* assembly the search produced.                                         *)
C11_FallbackKeepsSmallest ==
    (pc = "raised" /\ raised = "FileNotFoundError") =>
        /\ output_file # NoFile
        /\ output_file.size = smallest.size

(* C12: the guard acts before the first assembly and before any budget  *)
(* comparison: once anything was assembled or compared, the bitmap of    *)
(* the search has at most 50,000,000 pixels; it is the given bitmap      *)
(* itself when that was within the ceiling, and else the given bitmap    *)
(* scaled on both axes by one factor (up to the truncation of each side  *)
(* to whole pixels); and every page assembled has at most 50,000,000     *)
(* pixels.                                                               *)
C12_GuardPrecedesAssembly ==
    /\ (attempts # <<>> \/ Files # {} \/ max_size_bytes # 0) =>
          /\ image # NoImage
          /\ Pixels(image) <= 50000000
          /\ Pixels(argImage) <= 50000000 => SameBitmap(image, argImage)
          /\ Pixels(argImage) > 50000000 =>
                /\ image.w < argImage.w
                /\ image.h < argImage.h
                /\ Abs(image.w * argImage.h - image.h * argImage.w)
                       < LongestDimension(argImage)
    /\ \A f \in Files : f.w * f.h <= 50000000

(* a bitmap of 80,000,000 pixels was given, guarded to 7905 x 6324, and  *)
(* the ladder went on to a resized assembly of it                        *)
C12_Witness ==
    /\ argImage = Img(10000, 8000, "RGB")
    /\ image = Img(7905, 6324, "RGB")
    /\ Len(attempts) >= 6
    /\ temp_file # NoFile
    /\ temp_file.tier.method = "resize_and_jpeg"

(* the texts of the regions of confidence above 0.5, in the order given *)
ClaimKeptTexts(regions) ==
    LET keep == SelectSeq(regions, LAMBDA r : r.confidence > 50)
    IN  [i \in DOMAIN keep |-> keep[i].text]
DrawnTexts(page) == [i \in DOMAIN page.drawn |-> page.drawn[i].text]

(* C13: on every assembled page the texts drawn are exactly those of the *)
(* regions of confidence strictly above 0.5, in the order of the region  *)
(* list; a region of confidence 0.5 or less is never drawn.              *)
C13_ConfidentRegionsDrawn ==
    \A f \in Files :
        /\ DrawnTexts(f) = ClaimKeptTexts(f.regions)
        /\ \A i \in DOMAIN f.regions :
               f.regions[i].confidence <= 50 =>
                   \A k \in DOMAIN f.drawn : f.drawn[k].text # f.regions[i].text

(* regions of confidence 0.9, 0.4, 0.6 and 0.5 assembled on a resized    *)
(* page: the first and the third are drawn                               *)
C13_Witness ==
    /\ output_file # NoFile
    /\ output_file.tier.method = "resize_and_jpeg"
    /\ [i \in DOMAIN output_file.regions |-> output_file.regions[i].confidence]
           = <<90, 40, 60, 50>>
    /\ DrawnTexts(output_file) = <<"alpha", "gamma">>

(* the regions of confidence above 0.5, in the order given *)
ClaimKept(regions) == SelectSeq(regions, LAMBDA r : r.confidence > 50)

(* C14: on every assembled page, resized or not, each drawn string sits  *)
(* at x = the left edge of its region and y = (height of that page's     *)
(* bitmap) - (lower edge of its region), the region taken in that        *)
(* bitmap's coordinates: both as the regions were handed to the          *)
(* assembler and as the detected regions project onto that bitmap.       *)
C14_FlippedOnce ==
    \A f \in Files :
        LET handed == ClaimKept(f.regions)
            found == ClaimKept(ocr_results)
        IN  /\ Len(f.drawn) = Len(handed)
            /\ Len(f.drawn) = Len(found)
            /\ \A k \in DOMAIN f.drawn :
                   /\ f.drawn[k].x = handed[k].bbox[1][1]
                   /\ f.drawn[k].y =
                          RatSub(RatOfInt(f.h), handed[k].bbox[3][2])
                   /\ f.drawn[k].x =
                          RatScale(found[k].bbox[1][1], f.w, detImage.w)
                   /\ f.drawn[k].y =
                          RatSub(RatOfInt(f.h),
                                 RatScale(found[k].bbox[3][2], f.h, detImage.h))

(* C15: within one call of process_single_pdf the plan cache is written *)
(* at most once, and only by the search of the first page; that search   *)
(* has written it exactly once when it ends by accepting a quality       *)
(* tier, by accepting a resize tier, or in the fallback; no later step   *)
(* of the call writes it again.                                          *)
C15_CacheWrittenOnce ==
    /\ Len(cacheWrites) <= 1
    /\ \A i \in DOMAIN cacheWrites : cacheWrites[i] = 1
    /\ (/\ pc = "returned"
        /\ output_file.tier.method \in {"jpeg_only", "resize_and_jpeg"})
           => cacheWrites = <<1>>
    /\ (pc = "raised" /\ raised = "FileNotFoundError") => cacheWrites = <<1>>
    /\ page_num > 1 =>
           (cacheWrites # <<>> => (cacheDoc = docNo /\ lastSettings # NoSettings))

(* a document of two pages: the first page's search cached a plan in its *)
(* fallback and the second page has been handled since                   *)
C15_Witness ==
    /\ pdfPc = "done"
    /\ total_pages = 2
    /\ Len(pageLog) = 2
    /\ pageLog[1] = "FileNotFoundError"
    /\ cacheWrites = <<1>>
    /\ lastSettings.method = "resize_and_jpeg"

(* the ten tiers, in the order of the ladder *)
ClaimTiers ==
    <<NoCompression>>
    \o [i \in 1..4 |-> JpegOnly(ClaimQualityLadder[i])]
    \o [i \in 1..5 |-> ResizeAndJpeg(ClaimScaleLadder[i], 75)]

(* how far a search has come: the rung of the ladder it stands on, 11   *)
(* once it is over                                                      *)
SearchRunning == pc \in {"called", "quality", "resize", "fallback"}
SearchRung ==
    CASE pc = "called" -> 0
      [] pc = "quality" -> qi
      [] pc = "resize" -> 4 + ri
      [] pc = "fallback" -> 10
      [] OTHER -> 11

(* C16: a search makes at most ten assemblies, the k-th being of the     *)
(* k-th tier of the ladder, so that no tier is assembled twice; an       *)
(* assembly is followed by another only after its size was compared      *)
(* with the budget and found over it; and at no moment is there more     *)
(* than one candidate file.  Every step of a running search moves it to *)
(* a later rung of the eleven or ends it, making at most one assembly:   *)
(* a search is over within eleven steps.                                 *)
C16_BoundedSequentialSearch ==
    /\ [](/\ Len(attempts) <= 10
          /\ \A i \in DOMAIN attempts : attempts[i].tier = ClaimTiers[i]
          /\ \A i, j \in DOMAIN attempts :
                 i # j => attempts[i].tier # attempts[j].tier
          /\ \A i \in DOMAIN attempts : i < Len(attempts) => ~attempts[i].fits
          /\ Cardinality(Files) <= 1
          /\ \A f \in Files : f.tier = attempts[Len(attempts)].tier)
    /\ [][SearchRunning =>
              /\ SearchRung' > SearchRung
              /\ Len(attempts') <= Len(attempts) + 1]_vars

(* the longest search: all ten tiers assembled, none within the budget,  *)
(* and the search over                                                   *)
C16_Witness ==
    /\ SearchEnded
    /\ Len(attempts) = 10
    /\ NoneFits
    /\ attempts[10].tier = ResizeAndJpeg(5, 75)
    /\ output_file.tier = ResizeAndJpeg(5, 75)

(* C17: when the caller reads the plan after a search on the reference  *)
(* input, and the first search of the program was on that same input    *)
(* with the same sizes reported, the plan read is the plan read then.   *)
C17_SamePlanOnRerun ==
    [][(/\ pdfPc = "create"
        /\ pc = "returned"
        /\ IsReferenceRun
        /\ firstPlan # NotRun)
           => compression_settings' = firstPlan]_vars

(* C18: when a search that recorded a plan is over, the method, quality *)
(* and resize factor recorded are those of the tier that made the file   *)
(* at the output path.                                                   *)
C18_RecordedPlanWasUsed ==
    (pdfPc = "create" /\ SearchEnded /\ cacheWrites # <<>>) =>
        /\ output_file # NoFile
        /\ output_file.tier = lastSettings

ClaimScaled(regions, w1, w0, h1, h0) ==
    [i \in DOMAIN regions |->
        [bbox |-> [j \in DOMAIN regions[i].bbox |->
                      <<Rat(regions[i].bbox[j][1][1] * w1, regions[i].bbox[j][1][2] * w0),
                        Rat(regions[i].bbox[j][2][1] * h1, regions[i].bbox[j][2][2] * h0)>>],
         text |-> regions[i].text,
         confidence |-> regions[i].confidence]]

(* C20: every page of the resize ladder is made from the bitmap the      *)
(* search holds after its guard and from the region list it was given:   *)
(* its longest side is that bitmap's longest side times its own factor   *)
(* (not times the factors before it), its regions are the given regions  *)
(* times (page width / bitmap width, page height / bitmap height), and   *)
(* the given list is as it was detected all through the search.          *)
C20_ResizedFromOriginal ==
    /\ \A f \in Files :
           f.tier.method = "resize_and_jpeg" =>
               /\ LongestDimension(f) =
                      (LongestDimension(image) * f.tier.resize_factor) \div 10
               /\ f.w * image.h - f.h * image.w < image.w + image.h
               /\ f.h * image.w - f.w * image.h < image.w + image.h
               /\ f.regions = ClaimScaled(ocr_results, f.w, image.w, f.h, image.h)
    /\ (SearchRunning \/ SearchEnded) => ocr_results \in OcrChoices(detImage)

(* the second step of the ladder on a guarded bitmap of 7905 x 6324: 0.8 *)
(* of the bitmap, 6324 x 5059, not 0.8 of the 0.9 before it              *)
C20_Witness ==
    /\ image = Img(7905, 6324, "RGB")
    /\ temp_file # NoFile
    /\ temp_file.tier = ResizeAndJpeg(8, 75)
    /\ SameBitmap(temp_file, Img(6324, 5059, "RGB"))
    /\ temp_file.regions[1].bbox[1] = <<Rat(1000 * 6324, 7905), Rat(800 * 5059, 6324)>>

(* the messages process_single_pdf returns *)
ClaimMessages ==
    {"validation_error", "Missing required Python library", "Unexpected error",
     "No pages could be extracted"}

(* C21: a call of process_single_pdf that is over has returned a pair:   *)
(* an empty list with one of the function's messages, or a list of pages *)
(* with no message; no exception of the setup or of a page is what the   *)
(* caller gets, and a call that is under way has returned nothing yet.   *)
C21_AlwaysReturnsPair ==
    /\ pdfPc = "done" =>
          \/ result.error = "None"
          \/ result.error \in ClaimMessages /\ result.pdfs = <<>>
    /\ pdfPc = "done" =>
          \A k \in DOMAIN result.pdfs : result.pdfs[k].data # NoFile
    /\ pdfPc \in {"ocr", "create", "cached", "return"} => result = NoResult
    /\ pc = "raised" => pdfPc = "create"

(* the second document of a run failed in its setup, after the search   *)
(* of the first had cached a plan                                        *)
C21_Witness ==
    /\ pdfPc = "done"
    /\ docNo = 2
    /\ result = Returned(<<>>, "Unexpected error")
    /\ cacheDoc = 1

(* C22: while a call works on its pages its directory is there; once    *)
(* the call is over no directory it made is left without a removal      *)
(* having been attempted; a page enters the list only in a step taken   *)
(* while the directory is there and stays there, its bytes being those  *)
(* of the file then at the output path; and the list returned is the    *)
(* list so read, unchanged by the removal.                               *)
C22_CleanedUpAfterReading ==
    /\ [](/\ pdfPc \in {"ocr", "create", "cached", "return"} => temp_dir = "created"
          /\ pdfPc = "done" => temp_dir \in {"None", "removed", "kept"}
          /\ (pdfPc = "done" /\ result.error = "None") =>
                 temp_dir \in {"removed", "kept"}
          /\ Files # {} => temp_dir = "created")
    /\ [][/\ (processed_pdfs' # processed_pdfs /\ processed_pdfs' # <<>>) =>
                 /\ temp_dir = "created"
                 /\ temp_dir' = "created"
                 /\ output_file # NoFile
                 /\ processed_pdfs' =
                        Append(processed_pdfs,
                               [page |-> page_num, data |-> output_file])
          /\ (temp_dir = "created" /\ temp_dir' # "created") =>
                 /\ pdfPc' = "done"
                 /\ temp_dir' \in {"removed", "kept"}
                 /\ processed_pdfs' = processed_pdfs
                 /\ result'.pdfs = processed_pdfs]_vars

(* a document came back with a page and its directory is gone *)
C22_Witness ==
    /\ pdfPc = "done"
    /\ temp_dir = "removed"
    /\ result.error = "None"
    /\ Len(result.pdfs) = 1
    /\ result.pdfs[1].data.size > 0

(* C23: validate_pdf_file answers (True, None) only for a stream of at  *)
(* most 50 MB (52,428,800 bytes) that parsed with at least one page; a   *)
(* stream over 50 MB is never given to the parser; and when the function *)
(* has returned through its size check or its format check the stream    *)
(* stands at 0.                                                          *)
C23_ValidOnlyIfSmallAndParsed ==
    /\ pdf_file.size > 52428800 => ~pdf_file.parsed
    /\ vpc = "returned" =>
          /\ validation.is_valid =>
                /\ validation.error = "None"
                /\ pdf_file.size <= 52428800
                /\ pdf_file.parsed
                /\ pdf_file.pages >= 1
          /\ validation.error \in
                 {"None", "File size exceeds limit", "Invalid PDF format",
                  "PDF file contains no pages"} => pdf_file.position = 0
          /\ (pdf_file.size > 52428800 /\ pdf_file.seekable) =>
                 validation = Validated(FALSE, "File size exceeds limit")

(* a stream of exactly 50 MB with one page was accepted, parsed and put  *)
(* back at its start                                                     *)
C23_Witness ==
    /\ vpc = "returned"
    /\ validation = Validated(TRUE, "None")
    /\ pdf_file.size = 52428800
    /\ pdf_file.pages = 1
    /\ pdf_file.parsed
    /\ pdf_file.position = 0

====
